---- MODULE Spec2Model ----
(***************************************************************************)
(* State machine of the simple-task-manager server: the project service    *)
(* (server/project/project.go), the task service (server/task/task.go),    *)
(* the task store (server/task/task_store_pg.go), the v1.1 delete handler  *)
(* (server/api/api_v1.1.go), the tokens of package auth (second half of    *)
(* project.go) and the id counter of package util (server/util/util.go).   *)
(*                                                                         *)
(* The project store behind the `store` interface and the permission       *)
(* service are not part of the sources at hand; they are modelled from     *)
(* sections 4.1 and 6 of the specification and marked as such.             *)
(*                                                                         *)
(* Representation.  Ids are the integer row ids (the services pass their   *)
(* decimal form).  A user identifier is a string, written as a tuple of    *)
(* one-character strings so that strings.TrimSpace can be computed.  The   *)
(* Go errors carry only a message; `err` names the error class of the      *)
(* message, "nil" being success.                                           *)
(***************************************************************************)
EXTENDS Integers, Sequences, FiniteSets, TLC

VARIABLES
    projects,       \* project rows: id -> Project, on the ids that exist
    tasks,          \* rows of table "tasks": id -> taskRow, on the ids that exist
    nextProjectId,  \* next id the project store hands out
    nextTaskId,     \* next value of the serial column tasks.id
    last,           \* the call that returned last: [op, err]
    reqs,           \* requests in flight, each in its own transaction
    now,            \* time.Now(), in hours
    issued,         \* the tokens OauthCallback has handed out
    nextId,         \* util.nextId
    getId,          \* the GetId calls in progress, one goroutine each
    returnedIds     \* the ids GetId has returned, in the order of the returns

\* the state of package auth and of package util
authUtil == <<now, issued, nextId, getId, returnedIds>>

vars == <<projects, tasks, nextProjectId, nextTaskId, last, reqs,
          now, issued, nextId, getId, returnedIds>>

----------------------------------------------------------------------------
(* Bounds of the model *)

MaxProjects == 2
MaxTasks == 2
MaxPoints == 1
\* projects in the specifications that follow one project closely
MaxProjectsNarrow == 1

ProjectIds == 1..MaxProjects
TaskIds == 1..MaxTasks

(* User identifiers *)
A == <<"A">>
B == <<"B">>
C == <<"C">>
Empty == << >>
Blank == <<" ">>
Users == {A, B, C}

Range(s) == {s[i] : i \in DOMAIN s}

----------------------------------------------------------------------------
(* strings.TrimSpace, as used by TaskService.AssignUser *)

IsSpace(c) == c \in {" ", "\t", "\n", "\r"}

RECURSIVE TrimLeft(_)
TrimLeft(s) == IF s # << >> /\ IsSpace(Head(s)) THEN TrimLeft(Tail(s)) ELSE s

RECURSIVE TrimRight(_)
TrimRight(s) ==
    IF s # << >> /\ IsSpace(s[Len(s)]) THEN TrimRight(SubSeq(s, 1, Len(s) - 1)) ELSE s

TrimSpace(s) == TrimRight(TrimLeft(s))

----------------------------------------------------------------------------
(* Project store (behind the `store` interface; modelled from the          *)
(* specification's Persistence Port)                                       *)

projectStore_getProject(P, id) == id \in DOMAIN P

projectStore_addProject(P, newId, draft) ==
    (newId :> [name            |-> draft.name,
               taskIds         |-> draft.taskIds,
               users           |-> Range(draft.users),
               owner           |-> draft.owner,
               descriptionLen  |-> draft.descriptionLen,
               needsAssignment |-> draft.needsAssignment]) @@ P

projectStore_addUser(P, id, user) == [P EXCEPT ![id].users = @ \cup {user}]

projectStore_removeUser(P, id, user) == [P EXCEPT ![id].users = @ \ {user}]

projectStore_delete(P, id) == [i \in DOMAIN P \ {id} |-> P[i]]

\* the ids of the projects the user is a member of
projectStore_getProjects(P, user) == {id \in DOMAIN P : user \in P[id].users}

\* the ids of the tasks of the project
projectStore_getTasks(T, id) == {t \in DOMAIN T : T[t].projectId = id}

----------------------------------------------------------------------------
(* Task store, task_store_pg.go *)

\* SELECT ... WHERE id = $1: is there a row
getTask(T, taskId) == taskId \in DOMAIN T

\* SELECT ... WHERE project_id = $1
getTasks(T, projectId) == {t \in DOMAIN T : T[t].projectId = projectId}

\* INSERT INTO tasks(process_points, max_process_points, geometry,
\* assigned_user, project_id) VALUES($1, $2, $3, $4, $5)
addTask(T, newId, task, projectId) ==
    (newId :> [processPoints    |-> task.processPoints,
               maxProcessPoints |-> task.maxProcessPoints,
               geometry         |-> task.geometry,
               assignedUser     |-> task.assignedUser,
               projectId        |-> projectId]) @@ T

\* the loop of addTasks: one INSERT per task, ids taken from the serial
RECURSIVE addTasks(_, _, _, _)
addTasks(T, firstId, newTasks, projectId) ==
    IF newTasks = << >> THEN T
    ELSE addTasks(addTask(T, firstId, Head(newTasks), projectId),
                  firstId + 1, Tail(newTasks), projectId)

\* UPDATE tasks SET assigned_user=$1 WHERE id=$2
assignUser(T, taskId, userId) ==
    IF taskId \in DOMAIN T THEN [T EXCEPT ![taskId].assignedUser = userId] ELSE T

\* UPDATE tasks SET assigned_user='' WHERE id=$1
unassignUser(T, taskId) ==
    IF taskId \in DOMAIN T THEN [T EXCEPT ![taskId].assignedUser = Empty] ELSE T

\* UPDATE tasks SET process_points=$1 WHERE id=$2
setProcessPoints(T, taskId, newPoints) ==
    IF taskId \in DOMAIN T THEN [T EXCEPT ![taskId].processPoints = newPoints] ELSE T

\* DELETE FROM tasks WHERE id=ANY($1)
delete(T, taskIds) == [t \in DOMAIN T \ taskIds |-> T[t]]

\* execQuery: the UPDATE ... RETURNING of a row that is not there scans no row
execQueryErr(T, taskId) == IF taskId \in DOMAIN T THEN "nil" ELSE "NotFound"

----------------------------------------------------------------------------
(* Permission service (modelled from section 4.1 of the specification) *)

VerifyMembershipProject(P, projectId, user) ==
    IF projectId \notin DOMAIN P THEN "NotFound"
    ELSE IF user \in P[projectId].users THEN "nil"
    ELSE "NotAuthorized"

VerifyMembershipTask(P, T, taskId, user) ==
    IF taskId \notin DOMAIN T THEN "NotFound"
    ELSE VerifyMembershipProject(P, T[taskId].projectId, user)

\* VerifyMembershipTasks that is content with membership for one of the ids
VerifyMembershipTasks_Some(P, T, taskIds, user) ==
    IF \E t \in taskIds : VerifyMembershipTask(P, T, t, user) = "nil" THEN "nil"
    ELSE IF taskIds = {} THEN "nil"
    ELSE "NotAuthorized"

VerifyMembershipTasks(P, T, taskIds, user) ==
    IF \E t \in taskIds : VerifyMembershipTask(P, T, t, user) = "NotFound" THEN "NotFound"
    ELSE IF \E t \in taskIds : VerifyMembershipTask(P, T, t, user) # "nil" THEN "NotAuthorized"
    ELSE "nil"

\* VerifyAssignment that lets every requester pass
VerifyAssignment_Anyone(T, taskId, user) ==
    IF taskId \notin DOMAIN T THEN "NotFound" ELSE "nil"

VerifyAssignment(T, taskId, user) ==
    IF taskId \notin DOMAIN T THEN "NotFound"
    ELSE IF T[taskId].assignedUser # Empty /\ T[taskId].assignedUser = user THEN "nil"
    ELSE "NotAuthorized"

\* the error of the lookup, "nil" when the flag could be read
AssignmentInTaskNeededErr(P, T, taskId) ==
    IF taskId \notin DOMAIN T \/ T[taskId].projectId \notin DOMAIN P THEN "NotFound"
    ELSE "nil"

AssignmentInTaskNeeded(P, T, taskId) == P[T[taskId].projectId].needsAssignment

----------------------------------------------------------------------------
(* Inputs *)

maxDescriptionLength == 10000

\* (id, name, length of the description) of a well-formed draft
GoodHead == [id |-> "", name |-> "n", descriptionLen |-> maxDescriptionLength]

\* one (id, name, length of the description) for each of the checks of
\* AddProject on these fields
BadHeads ==
    { [id |-> "7", name |-> "n", descriptionLen |-> maxDescriptionLength],
      [id |-> "",  name |-> "",  descriptionLen |-> maxDescriptionLength],
      [id |-> "",  name |-> "n", descriptionLen |-> maxDescriptionLength + 1] }

Draft(head, owner, users, taskIds, needsAssignment) ==
    [id |-> head.id, name |-> head.name, descriptionLen |-> head.descriptionLen,
     owner |-> owner, users |-> users, taskIds |-> taskIds,
     needsAssignment |-> needsAssignment]

\* drafts POSTed to /projects that differ in owner and users
MemberDrafts ==
    { Draft(GoodHead, o, us, <<1>>, FALSE) :
        o \in {Empty, A, B}, us \in {<< >>, <<A>>, <<A, B>>, <<B, C>>, <<A, A>>} }

\* drafts POSTed to /projects that differ in their tasks
ProjectDrafts ==
    { Draft(GoodHead, A, us, ts, FALSE) :
        us \in {<<A>>, <<A, B>>}, ts \in {<< >>, <<1>>, <<2>>, <<1, 2>>} }
    \cup { Draft(h, A, <<A>>, <<1>>, FALSE) : h \in BadHeads }

\* drafts POSTed to /projects that differ in needsAssignment
TaskProjectDrafts == { Draft(GoodHead, A, <<A, B>>, <<1>>, na) : na \in BOOLEAN }

\* GeoJSON documents, by what geojson.UnmarshalFeature makes of them
Geometries == {"FeaturePolygon", "FeaturePoint", "FeatureNoGeometry", "Polygon", "NotJSON"}

UnmarshalFeatureErr(g) == g = "NotJSON"
FeatureType(g) == IF g \in {"FeaturePolygon", "FeaturePoint", "FeatureNoGeometry"}
                  THEN "Feature" ELSE g
FeatureGeometryType(g) == CASE g = "FeaturePolygon" -> "Polygon"
                            [] g = "FeaturePoint"   -> "Point"
                            [] OTHER                -> "nil"

TaskDraft(pp, mp, g, u) ==
    [processPoints |-> pp, maxProcessPoints |-> mp, geometry |-> g, assignedUser |-> u]

----------------------------------------------------------------------------
(* Project service, project.go *)

\* a call of the project or the task service returns
Return(op, err) ==
    /\ last' = [op |-> op, err |-> err]
    /\ UNCHANGED authUtil

\* AddProjectErr that refuses a description of the maximal length
AddProjectErr_LimitExcluded(project) ==
    IF project.id # "" THEN "Validation"
    ELSE IF project.owner = Empty THEN "Validation"
    ELSE IF ~(\E i \in DOMAIN project.users : project.users[i] = project.owner)
         THEN "Validation"
    ELSE IF project.name = "" THEN "Validation"
    ELSE IF Len(project.taskIds) = 0 THEN "Validation"
    ELSE IF project.descriptionLen >= maxDescriptionLength THEN "Validation"
    ELSE "nil"

\* the checks of AddProject, in the order of the code
AddProjectErr(project) ==
    IF project.id # "" THEN "Validation"
    ELSE IF project.owner = Empty THEN "Validation"
    ELSE IF ~(\E i \in DOMAIN project.users : project.users[i] = project.owner)
         THEN "Validation"
    ELSE IF project.name = "" THEN "Validation"
    ELSE IF Len(project.taskIds) = 0 THEN "Validation"
    ELSE IF project.descriptionLen > maxDescriptionLength THEN "Validation"
    ELSE "nil"

AddProject(project, user) ==
    LET err == AddProjectErr(project) IN
    IF err # "nil"
    THEN /\ Return("AddProject", err)
         /\ UNCHANGED <<projects, tasks, nextProjectId, nextTaskId, reqs>>
    ELSE /\ nextProjectId <= MaxProjects
         /\ projects' = projectStore_addProject(projects, nextProjectId, project)
         /\ nextProjectId' = nextProjectId + 1
         /\ Return("AddProject", "nil")
         /\ UNCHANGED <<tasks, nextTaskId, reqs>>

\* AddUserErr without the test of the users already in the project
AddUserErr_NoConflict(P, user, id, potentialOwner) ==
    IF ~projectStore_getProject(P, id) THEN "NotFound"
    ELSE IF P[id].owner # potentialOwner THEN "NotAuthorized"
    ELSE "nil"

AddUserErr(P, user, id, potentialOwner) ==
    IF ~projectStore_getProject(P, id) THEN "NotFound"
    ELSE IF P[id].owner # potentialOwner THEN "NotAuthorized"
    ELSE IF user \in P[id].users THEN "Conflict"
    ELSE "nil"

AddUser(user, id, potentialOwner) ==
    LET err == AddUserErr(projects, user, id, potentialOwner) IN
    /\ projects' = IF err = "nil" THEN projectStore_addUser(projects, id, user)
                   ELSE projects
    /\ Return("AddUser", err)
    /\ UNCHANGED <<tasks, nextProjectId, nextTaskId, reqs>>

\* LeaveProjectErr without the test of the owner
LeaveProjectErr_NoOwnerTest(P, id, potentialMember) ==
    IF ~projectStore_getProject(P, id) THEN "NotFound" ELSE "nil"

LeaveProjectErr(P, id, potentialMember) ==
    IF ~projectStore_getProject(P, id) THEN "NotFound"
    ELSE IF P[id].owner = potentialMember THEN "NotAuthorized"
    ELSE "nil"

LeaveProject(id, potentialMember) ==
    LET err == LeaveProjectErr(projects, id, potentialMember) IN
    /\ projects' = IF err = "nil" THEN projectStore_removeUser(projects, id, potentialMember)
                   ELSE projects
    /\ Return("LeaveProject", err)
    /\ UNCHANGED <<tasks, nextProjectId, nextTaskId, reqs>>

RemoveUserErr(P, id, requestingUser, userToRemove) ==
    IF ~projectStore_getProject(P, id) THEN "NotFound"
    ELSE IF requestingUser # userToRemove /\ P[id].owner # requestingUser
         THEN "NotAuthorized"
    ELSE "nil"

RemoveUser(id, requestingUser, userToRemove) ==
    LET err == RemoveUserErr(projects, id, requestingUser, userToRemove) IN
    /\ projects' = IF err = "nil" THEN projectStore_removeUser(projects, id, userToRemove)
                   ELSE projects
    /\ Return("RemoveUser", err)
    /\ UNCHANGED <<tasks, nextProjectId, nextTaskId, reqs>>

DeleteProjectErr(P, id, potentialOwner) ==
    IF ~projectStore_getProject(P, id) THEN "NotFound"
    ELSE IF P[id].owner # potentialOwner THEN "NotAuthorized"
    ELSE "nil"

\* the body of DeleteProject, returning under the name `op`
DeleteProjectAs(op, id, potentialOwner) ==
    LET err == DeleteProjectErr(projects, id, potentialOwner) IN
    /\ projects' = IF err = "nil" THEN projectStore_delete(projects, id) ELSE projects
    /\ Return(op, err)
    /\ UNCHANGED <<tasks, nextProjectId, nextTaskId, reqs>>

DeleteProject(id, potentialOwner) == DeleteProjectAs("DeleteProject", id, potentialOwner)

----------------------------------------------------------------------------
(* DELETE /v1.1/projects/{id}, api_v1.1.go *)

\* The handler calls project.DeleteProject(vars["id"]): the user of the token
\* is not handed on, so the value DeleteProject compares with the owner is not
\* the requester's; it is left open here.
deleteProjects(id, tokenUser) ==
    \E potentialOwner \in Users : DeleteProjectAs("deleteProjects", id, potentialOwner)

----------------------------------------------------------------------------
(* Task service, task.go: each call as one unit *)

\* the checks AddTasks makes of one task
TaskDraftErr(t) ==
    IF t.processPoints < 0 \/ t.maxProcessPoints < 1
       \/ t.maxProcessPoints < t.processPoints
    THEN "Validation"
    ELSE IF UnmarshalFeatureErr(t.geometry) THEN "Validation"
    ELSE IF FeatureType(t.geometry) # "Feature"
            \/ FeatureGeometryType(t.geometry) = "nil"
            \/ FeatureGeometryType(t.geometry) # "Polygon"
    THEN "Validation"
    ELSE "nil"

\* AddTasksErr that looks at the first task only
AddTasksErr_FirstOnly(newTasks) ==
    IF newTasks # << >> /\ TaskDraftErr(newTasks[1]) # "nil"
    THEN "Validation" ELSE "nil"

AddTasksErr(newTasks) ==
    IF \E i \in DOMAIN newTasks : TaskDraftErr(newTasks[i]) # "nil"
    THEN "Validation" ELSE "nil"

AddTasks(newTasks, projectId) ==
    LET err == AddTasksErr(newTasks) IN
    IF err # "nil"
    THEN /\ Return("AddTasks", err)
         /\ UNCHANGED <<projects, tasks, nextProjectId, nextTaskId, reqs>>
    ELSE /\ nextTaskId + Len(newTasks) - 1 <= MaxTasks
         /\ tasks' = addTasks(tasks, nextTaskId, newTasks, projectId)
         /\ nextTaskId' = nextTaskId + Len(newTasks)
            \* addTasks ends with getTasks(projectId), which fails on no rows
         /\ Return("AddTasks", IF getTasks(tasks', projectId) = {} THEN "NotFound" ELSE "nil")
         /\ UNCHANGED <<projects, nextProjectId, reqs>>

\* what a transaction leaves in the table when it ends: its writes if the
\* call succeeded, what was committed before if a statement failed
TxEnd(committed, written, err) == IF err = "nil" THEN written ELSE committed

\* AddTasks where the k-th INSERT of storePg.addTasks fails: the loop stops
\* and hands the error on; the serial values of the INSERTs before it are used
AddTasks_insertFails(newTasks, projectId, k) ==
    /\ AddTasksErr(newTasks) = "nil"
    /\ k \in DOMAIN newTasks
    /\ nextTaskId + Len(newTasks) - 1 <= MaxTasks
    /\ tasks' = TxEnd(tasks,
                      addTasks(tasks, nextTaskId, SubSeq(newTasks, 1, k - 1), projectId),
                      "Internal")
    /\ nextTaskId' = nextTaskId + (k - 1)
    /\ Return("AddTasks", "Internal")
    /\ UNCHANGED <<projects, nextProjectId, reqs>>

\* AssignUserErr without the test of the assigned user
AssignUserErr_NoConflict(T, taskId) ==
    IF ~getTask(T, taskId) THEN "NotFound" ELSE "nil"

\* getTask and the test of the assigned user
AssignUserErr(T, taskId) ==
    IF ~getTask(T, taskId) THEN "NotFound"
    ELSE IF TrimSpace(T[taskId].assignedUser) # Empty THEN "Conflict"
    ELSE "nil"

AssignUser(taskId, userId) ==
    LET err == AssignUserErr(tasks, taskId) IN
    /\ tasks' = IF err = "nil" THEN assignUser(tasks, taskId, userId) ELSE tasks
    /\ Return("AssignUser", err)
    /\ UNCHANGED <<projects, nextProjectId, nextTaskId, reqs>>

UnassignUser(taskId, requestingUserId) ==
    LET err == VerifyAssignment(tasks, taskId, requestingUserId) IN
    /\ tasks' = IF err = "nil" THEN unassignUser(tasks, taskId) ELSE tasks
    /\ Return("UnassignUser", err)
    /\ UNCHANGED <<projects, nextProjectId, nextTaskId, reqs>>

\* SetProcessPointsVerify that asks for membership whatever the flag
SetProcessPointsVerify_MembershipOnly(P, T, needsAssignment, taskId, requestingUserId) ==
    VerifyMembershipTask(P, T, taskId, requestingUserId)

\* the permission SetProcessPoints asks for, given the flag of the project
SetProcessPointsVerify(P, T, needsAssignment, taskId, requestingUserId) ==
    IF needsAssignment THEN VerifyAssignment(T, taskId, requestingUserId)
    ELSE VerifyMembershipTask(P, T, taskId, requestingUserId)

\* SetProcessPointsRangeErr without the upper end of the range
SetProcessPointsRangeErr_NoUpper(T, taskId, newPoints) ==
    IF ~getTask(T, taskId) THEN "NotFound"
    ELSE IF newPoints < 0 THEN "Validation"
    ELSE "nil"

\* getTask and the test of the range
SetProcessPointsRangeErr(T, taskId, newPoints) ==
    IF ~getTask(T, taskId) THEN "NotFound"
    ELSE IF newPoints < 0 \/ T[taskId].maxProcessPoints < newPoints THEN "Validation"
    ELSE "nil"

SetProcessPointsErr(P, T, taskId, newPoints, requestingUserId) ==
    IF AssignmentInTaskNeededErr(P, T, taskId) # "nil"
    THEN AssignmentInTaskNeededErr(P, T, taskId)
    ELSE IF SetProcessPointsVerify(P, T, AssignmentInTaskNeeded(P, T, taskId),
                                   taskId, requestingUserId) # "nil"
    THEN SetProcessPointsVerify(P, T, AssignmentInTaskNeeded(P, T, taskId),
                                taskId, requestingUserId)
    ELSE SetProcessPointsRangeErr(T, taskId, newPoints)

SetProcessPoints(taskId, newPoints, requestingUserId) ==
    LET err == SetProcessPointsErr(projects, tasks, taskId, newPoints, requestingUserId) IN
    /\ tasks' = IF err = "nil" THEN setProcessPoints(tasks, taskId, newPoints) ELSE tasks
    /\ Return("SetProcessPoints", err)
    /\ UNCHANGED <<projects, nextProjectId, nextTaskId, reqs>>

Delete(taskIds, requestingUserId) ==
    LET err == VerifyMembershipTasks(projects, tasks, taskIds, requestingUserId) IN
    /\ tasks' = IF err = "nil" THEN delete(tasks, taskIds) ELSE tasks
    /\ Return("Delete", err)
    /\ UNCHANGED <<projects, nextProjectId, nextTaskId, reqs>>

----------------------------------------------------------------------------
(* Reads.  A read changes no table; what it hands back is a function of    *)
(* the tables it reads, given with each read.                              *)

\* the Project struct GetProject returns: the fields of the struct
GetProjectResult(P, id) ==
    [id              |-> id,
     name            |-> P[id].name,
     taskIds         |-> P[id].taskIds,
     users           |-> P[id].users,
     owner           |-> P[id].owner,
     descriptionLen  |-> P[id].descriptionLen,
     needsAssignment |-> P[id].needsAssignment]

\* project.GetProjects
GetProjectsResult(P, user) ==
    {GetProjectResult(P, id) : id \in projectStore_getProjects(P, user)}

GetProjects(user) ==
    /\ Return("GetProjects", "nil")
    /\ UNCHANGED <<projects, tasks, nextProjectId, nextTaskId, reqs>>

\* project.GetProject: the membership test is commented out
GetProjectErr(P, id, potentialMember) ==
    IF ~projectStore_getProject(P, id) THEN "NotFound" ELSE "nil"

GetProject(id, potentialMember) ==
    /\ Return("GetProject", GetProjectErr(projects, id, potentialMember))
    /\ UNCHANGED <<projects, tasks, nextProjectId, nextTaskId, reqs>>

\* project.GetTasks: the membership test is commented out
GetTasksErr(P, id, user) ==
    IF ~projectStore_getProject(P, id) THEN "NotFound" ELSE "nil"

GetTasksResult(T, id) == projectStore_getTasks(T, id)

GetTasks(id, user) ==
    /\ Return("GetTasks", GetTasksErr(projects, id, user))
    /\ UNCHANGED <<projects, tasks, nextProjectId, nextTaskId, reqs>>

\* TaskService.GetTasks: VerifyMembershipProject, then the store's getTasks,
\* which fails when the project has no task
TaskService_GetTasksErr(P, T, projectId, requestingUserId) ==
    IF VerifyMembershipProject(P, projectId, requestingUserId) # "nil"
    THEN VerifyMembershipProject(P, projectId, requestingUserId)
    ELSE IF getTasks(T, projectId) = {} THEN "NotFound"
    ELSE "nil"

TaskService_GetTasks(projectId, requestingUserId) ==
    /\ Return("TaskService.GetTasks",
              TaskService_GetTasksErr(projects, tasks, projectId, requestingUserId))
    /\ UNCHANGED <<projects, tasks, nextProjectId, nextTaskId, reqs>>

----------------------------------------------------------------------------
(* Package auth (second half of project.go).  Time is counted in hours.     *)

\* time.ParseDuration("24h")
tokenValidDuration == 24

\* hours after the end of a token's validity that the model looks at
MaxLate == 2
\* tokens OauthCallback hands out
MaxTokens == 2

\* the values time.Now() takes
Times == {0, 1} \cup {tokenValidDuration + k : k \in 0..MaxLate}

\* user names the OSM server reports
A1 == <<"A", "1">>
AuthUsers == {A, A1, B}

\* sha256 of the random bytes drawn by InitAuth, printed with %x: one value
\* of fixed length for the life of the process
tokenSecretNonce == <<"N">>

\* the verb %d of fmt.Sprintf, for n >= 0
Digit(n) == CASE n = 0 -> "0" [] n = 1 -> "1" [] n = 2 -> "2" [] n = 3 -> "3"
              [] n = 4 -> "4" [] n = 5 -> "5" [] n = 6 -> "6" [] n = 7 -> "7"
              [] n = 8 -> "8" [] n = 9 -> "9"

RECURSIVE FormatInt(_)
FormatInt(n) ==
    IF n < 10 THEN <<Digit(n)>> ELSE FormatInt(n \div 10) \o <<Digit(n % 10)>>

\* fmt.Sprintf("%x%s%d", tokenSecretNonce, user, validTime)
secretBaseString(user, validTime) == tokenSecretNonce \o user \o FormatInt(validTime)

\* createSecret: sha256, one AES block, sha256 and base64 of the base string.
\* These are fixed functions of the base string; they are taken as
\* one-to-one, so that a secret is written as the base string it comes from.
createSecret(user, validTime) == secretBaseString(user, validTime)

Token(validUntil, user, secret) ==
    [validUntil |-> validUntil, user |-> user, secret |-> secret]

\* OauthCallback, once the OSM server has reported userName
OauthCallback(userName) ==
    LET validUntil == now + tokenValidDuration IN
    /\ Cardinality(issued) < MaxTokens
    /\ issued' = issued \cup {Token(validUntil, userName, createSecret(userName, validUntil))}
    /\ last' = [op |-> "OauthCallback", err |-> "nil"]
    /\ UNCHANGED <<projects, tasks, nextProjectId, nextTaskId, reqs,
                   now, nextId, getId, returnedIds>>

\* the clock goes on
TimePasses ==
    /\ now' \in {t \in Times : t > now}
    /\ UNCHANGED <<projects, tasks, nextProjectId, nextTaskId, last, reqs,
                   issued, nextId, getId, returnedIds>>

\* VerifyRequest on an Authorization header: its encoding, and the fields of
\* the token it decodes to
VerifyRequestErr(header, time) ==
    IF header.encoding = "notBase64" THEN "Malformed"
    ELSE IF header.encoding = "notJSON" THEN "Malformed"
    ELSE IF header.secret # createSecret(header.user, header.validUntil)
         THEN "SecretNotValid"
    ELSE IF header.validUntil < time THEN "TokenExpired"
    ELSE "nil"

VerifyRequest(header) ==
    /\ last' = [op |-> "VerifyRequest", err |-> VerifyRequestErr(header, now)]
    /\ UNCHANGED <<projects, tasks, nextProjectId, nextTaskId, reqs>>
    /\ UNCHANGED authUtil

\* the number whose decimal form is the digit d followed by that of v
Prefixed(d, v) ==
    LET RECURSIVE Pow10(_)
        Pow10(k) == IF k = 0 THEN 1 ELSE 10 * Pow10(k - 1)
    IN d * Pow10(Len(FormatInt(v))) + v

\* the headers a client can send: the tokens handed out, and tokens put
\* together from the fields of those
Headers ==
    LET valids  == {i.validUntil : i \in issued}
        secrets == {i.secret : i \in issued} \cup {<<"x">>}
    IN { [encoding |-> "ok", validUntil |-> v, user |-> u, secret |-> x] :
            v \in valids \cup {w + 1 : w \in valids} \cup {Prefixed(1, w) : w \in valids},
            u \in AuthUsers, x \in secrets }
       \cup { [encoding |-> e, validUntil |-> 0, user |-> A, secret |-> <<"x">>] :
                e \in {"notBase64", "notJSON"} }

----------------------------------------------------------------------------
(* Package util: GetId, called from the goroutines of the requests.  The    *)
(* function reads and writes the package variable nextId with no lock and   *)
(* no atomic operation, so every read and every write of it is a step of    *)
(* its own.                                                                 *)

MaxGoroutines == 2
\* ids handed out
MaxIds == 4

Goroutines == 1..MaxGoroutines

GetIdIdle == [pc |-> "idle", id |-> 0, sum |-> 0]

\* id := nextId
GetId_read(g) ==
    /\ getId[g].pc = "idle"
    /\ Len(returnedIds) + Cardinality({h \in Goroutines : getId[h].pc # "idle"}) < MaxIds
    /\ getId' = [getId EXCEPT ![g] = [pc |-> "add", id |-> nextId, sum |-> 0]]
    /\ UNCHANGED <<projects, tasks, nextProjectId, nextTaskId, last, reqs,
                   now, issued, nextId, returnedIds>>

\* nextId += 1, the read of nextId and the addition
GetId_add(g) ==
    /\ getId[g].pc = "add"
    /\ getId' = [getId EXCEPT ![g].pc = "store", ![g].sum = nextId + 1]
    /\ UNCHANGED <<projects, tasks, nextProjectId, nextTaskId, last, reqs,
                   now, issued, nextId, returnedIds>>

\* nextId += 1, the write of nextId; return strconv.Itoa(id)
GetId_store(g) ==
    /\ getId[g].pc = "store"
    /\ nextId' = getId[g].sum
    /\ returnedIds' = Append(returnedIds, FormatInt(getId[g].id))
    /\ getId' = [getId EXCEPT ![g] = GetIdIdle]
    /\ last' = [op |-> "GetId", err |-> "nil"]
    /\ UNCHANGED <<projects, tasks, nextProjectId, nextTaskId, reqs, now, issued>>

----------------------------------------------------------------------------
(* Initial state: empty tables, no request in flight *)

MaxReqs == 2
ReqIds == 1..MaxReqs

Idle == [op |-> "idle", pc |-> "idle", taskId |-> 0, user |-> Empty,
         points |-> 0, needsAssignment |-> FALSE]

Init ==
    /\ projects = << >>
    /\ tasks = << >>
    /\ nextProjectId = 1
    /\ nextTaskId = 1
    /\ last = [op |-> "none", err |-> "nil"]
    /\ reqs = [r \in ReqIds |-> Idle]
    /\ now = 0
    /\ issued = {}
    /\ nextId = 0
    /\ getId = [g \in Goroutines |-> GetIdIdle]
    /\ returnedIds = << >>

----------------------------------------------------------------------------
(* Projects and their tasks: every call one unit *)

\* the tasks POSTed to /tasks in this specification
PlainTask == TaskDraft(0, 1, "FeaturePolygon", Empty)

Next ==
    \/ \E d \in ProjectDrafts, u \in Users : AddProject(d, u)
    \/ \E id \in ProjectIds, u \in Users : DeleteProject(id, u)
    \/ \E id \in ProjectIds, u \in Users : deleteProjects(id, u)
    \/ \E id \in ProjectIds : AddTasks(<<PlainTask>>, id)
    \/ \E ts \in SUBSET TaskIds, u \in Users : Delete(ts, u)

Spec == Init /\ [][Next]_vars

----------------------------------------------------------------------------
(* Membership of the projects: every call one unit *)

NextMembers ==
    \/ \E d \in MemberDrafts, u \in Users :
            nextProjectId <= MaxProjectsNarrow /\ AddProject(d, u)
    \/ \E u \in Users, id \in ProjectIds, o \in Users : AddUser(u, id, o)
    \/ \E id \in ProjectIds, u \in Users : LeaveProject(id, u)
    \/ \E id \in ProjectIds, u \in Users, v \in Users : RemoveUser(id, u, v)
    \/ \E id \in ProjectIds, u \in Users : DeleteProject(id, u)

SpecMembers == Init /\ [][NextMembers]_vars

----------------------------------------------------------------------------
(* Tasks of a project: every call one unit *)

\* the tasks POSTed to /tasks: every combination of points, and one task for
\* each way a geometry or an assigned user can differ from the plain one
TaskDrafts ==
    { TaskDraft(pp, mp, "FeaturePolygon", Empty) :
        pp \in -1..(MaxPoints + 1), mp \in 0..MaxPoints }
    \cup { TaskDraft(0, 1, g, Empty) : g \in Geometries }
    \cup { TaskDraft(0, 1, "FeaturePolygon", u) : u \in {Blank, B} }

TaskBatches ==
    {<< >>} \cup { <<d>> : d \in TaskDrafts }
    \cup { <<PlainTask, d>> :
              d \in {PlainTask, TaskDraft(MaxPoints + 1, MaxPoints, "FeaturePolygon", Empty),
                     TaskDraft(0, 1, "FeaturePoint", Empty)} }

Points == -1..(MaxPoints + 1)

NextTask ==
    \/ \E d \in TaskProjectDrafts :
            nextProjectId <= MaxProjectsNarrow /\ AddProject(d, d.owner)
    \/ \E b \in TaskBatches, id \in 1..MaxProjectsNarrow : AddTasks(b, id)
    \/ \E t \in TaskIds, u \in Users : AssignUser(t, u)
    \/ \E t \in TaskIds, u \in Users : UnassignUser(t, u)
    \/ \E t \in TaskIds, n \in Points, u \in Users : SetProcessPoints(t, n, u)

SpecTask == Init /\ [][NextTask]_vars

----------------------------------------------------------------------------
(* Task service, task.go: each call in a transaction of its own, one        *)
(* statement at a time.  A statement reads what is committed; the one       *)
(* UPDATE of a call is its last statement and is taken together with the    *)
(* commit that follows it, which is when other transactions see it (a       *)
(* second UPDATE of the same row waits for that commit and then applies).   *)

InFlight(op, pc, taskId, user, points, needsAssignment) ==
    [op |-> op, pc |-> pc, taskId |-> taskId, user |-> user,
     points |-> points, needsAssignment |-> needsAssignment]

\* request r goes on with its next statement
Goto(r, req) ==
    /\ reqs' = [reqs EXCEPT ![r] = req]
    /\ UNCHANGED last
    /\ UNCHANGED authUtil

\* request r returns
Done(r, op, err) ==
    /\ reqs' = [reqs EXCEPT ![r] = Idle]
    /\ Return(op, err)

\* AssignUser: s.store.getTask and the test of the assigned user
AssignUser_getTask(r, taskId, userId) ==
    /\ reqs[r] = Idle
    /\ IF AssignUserErr(tasks, taskId) # "nil"
       THEN Done(r, "AssignUser", AssignUserErr(tasks, taskId))
       ELSE Goto(r, InFlight("AssignUser", "assignUser", taskId, userId, 0, FALSE))
    /\ UNCHANGED <<projects, tasks, nextProjectId, nextTaskId>>

\* AssignUser: s.store.assignUser
AssignUser_assignUser(r) ==
    /\ reqs[r].op = "AssignUser" /\ reqs[r].pc = "assignUser"
    /\ tasks' = assignUser(tasks, reqs[r].taskId, reqs[r].user)
    /\ Done(r, "AssignUser", execQueryErr(tasks, reqs[r].taskId))
    /\ UNCHANGED <<projects, nextProjectId, nextTaskId>>

\* UnassignUser: s.permissionService.VerifyAssignment
UnassignUser_VerifyAssignment(r, taskId, requestingUserId) ==
    /\ reqs[r] = Idle
    /\ IF VerifyAssignment(tasks, taskId, requestingUserId) # "nil"
       THEN Done(r, "UnassignUser", VerifyAssignment(tasks, taskId, requestingUserId))
       ELSE Goto(r, InFlight("UnassignUser", "unassignUser", taskId, requestingUserId,
                             0, FALSE))
    /\ UNCHANGED <<projects, tasks, nextProjectId, nextTaskId>>

\* UnassignUser: s.store.unassignUser
UnassignUser_unassignUser(r) ==
    /\ reqs[r].op = "UnassignUser" /\ reqs[r].pc = "unassignUser"
    /\ tasks' = unassignUser(tasks, reqs[r].taskId)
    /\ Done(r, "UnassignUser", execQueryErr(tasks, reqs[r].taskId))
    /\ UNCHANGED <<projects, nextProjectId, nextTaskId>>

\* SetProcessPoints: s.permissionService.AssignmentInTaskNeeded
SetProcessPoints_AssignmentInTaskNeeded(r, taskId, newPoints, requestingUserId) ==
    /\ reqs[r] = Idle
    /\ IF AssignmentInTaskNeededErr(projects, tasks, taskId) # "nil"
       THEN Done(r, "SetProcessPoints", AssignmentInTaskNeededErr(projects, tasks, taskId))
       ELSE Goto(r, InFlight("SetProcessPoints", "verify", taskId, requestingUserId,
                             newPoints, AssignmentInTaskNeeded(projects, tasks, taskId)))
    /\ UNCHANGED <<projects, tasks, nextProjectId, nextTaskId>>

\* SetProcessPoints: VerifyAssignment or VerifyMembershipTask
SetProcessPoints_verify(r) ==
    /\ reqs[r].op = "SetProcessPoints" /\ reqs[r].pc = "verify"
    /\ LET err == SetProcessPointsVerify(projects, tasks, reqs[r].needsAssignment,
                                         reqs[r].taskId, reqs[r].user) IN
       IF err # "nil" THEN Done(r, "SetProcessPoints", err)
       ELSE Goto(r, [reqs[r] EXCEPT !.pc = "getTask"])
    /\ UNCHANGED <<projects, tasks, nextProjectId, nextTaskId>>

\* SetProcessPoints: s.store.getTask and the test of the range
SetProcessPoints_getTask(r) ==
    /\ reqs[r].op = "SetProcessPoints" /\ reqs[r].pc = "getTask"
    /\ LET err == SetProcessPointsRangeErr(tasks, reqs[r].taskId, reqs[r].points) IN
       IF err # "nil" THEN Done(r, "SetProcessPoints", err)
       ELSE Goto(r, [reqs[r] EXCEPT !.pc = "setProcessPoints"])
    /\ UNCHANGED <<projects, tasks, nextProjectId, nextTaskId>>

\* SetProcessPoints: s.store.setProcessPoints
SetProcessPoints_setProcessPoints(r) ==
    /\ reqs[r].op = "SetProcessPoints" /\ reqs[r].pc = "setProcessPoints"
    /\ tasks' = setProcessPoints(tasks, reqs[r].taskId, reqs[r].points)
    /\ Done(r, "SetProcessPoints", execQueryErr(tasks, reqs[r].taskId))
    /\ UNCHANGED <<projects, nextProjectId, nextTaskId>>

----------------------------------------------------------------------------
(* Concurrent AssignUser and UnassignUser calls *)

NextAssign ==
    \/ \E id \in ProjectIds : AddTasks(<<PlainTask>>, id)
    \/ \E r \in ReqIds, t \in TaskIds, u \in {A, B} : AssignUser_getTask(r, t, u)
    \/ \E r \in ReqIds : AssignUser_assignUser(r)
    \/ \E r \in ReqIds, t \in TaskIds, u \in {A, B} :
            UnassignUser_VerifyAssignment(r, t, u)
    \/ \E r \in ReqIds : UnassignUser_unassignUser(r)

SpecAssign == Init /\ [][NextAssign]_vars

----------------------------------------------------------------------------
(* Concurrent SetProcessPoints calls, with tasks added and deleted *)

PointsProjectDrafts == { Draft(GoodHead, A, <<A, B>>, <<1>>, FALSE) }

PointsTaskBatches ==
    { <<TaskDraft(pp, mp, "FeaturePolygon", Empty)>> :
        pp \in -1..(MaxPoints + 1), mp \in 0..MaxPoints }

NextPoints ==
    \/ \E d \in PointsProjectDrafts :
            nextProjectId <= MaxProjectsNarrow /\ AddProject(d, d.owner)
    \/ \E b \in PointsTaskBatches, id \in 1..MaxProjectsNarrow : AddTasks(b, id)
    \/ \E t \in TaskIds : Delete({t}, A)
    \/ \E r \in ReqIds, t \in TaskIds, n \in Points, u \in {A, C} :
            SetProcessPoints_AssignmentInTaskNeeded(r, t, n, u)
    \/ \E r \in ReqIds : SetProcessPoints_verify(r)
    \/ \E r \in ReqIds : SetProcessPoints_getTask(r)
    \/ \E r \in ReqIds : SetProcessPoints_setProcessPoints(r)

SpecPoints == Init /\ [][NextPoints]_vars

----------------------------------------------------------------------------
(* Reads of a project and its tasks, between AddTasks, SetProcessPoints and *)
(* Delete: every call one unit *)

NextRead ==
    \/ \E d \in PointsProjectDrafts :
            nextProjectId <= MaxProjectsNarrow /\ AddProject(d, d.owner)
    \/ \E b \in PointsTaskBatches, id \in 1..MaxProjectsNarrow : AddTasks(b, id)
    \/ \E t \in TaskIds, n \in Points, u \in Users : SetProcessPoints(t, n, u)
    \/ \E t \in TaskIds, u \in Users : Delete({t}, u)
    \/ \E u \in Users : GetProjects(u)
    \/ \E id \in ProjectIds, u \in Users : GetProject(id, u)
    \/ \E id \in ProjectIds, u \in Users : GetTasks(id, u)
    \/ \E id \in ProjectIds, u \in Users : TaskService_GetTasks(id, u)

SpecRead == Init /\ [][NextRead]_vars

----------------------------------------------------------------------------
(* Batches of tasks added to a project, with INSERTs that fail *)

NextAddTasks ==
    \/ \E d \in PointsProjectDrafts :
            nextProjectId <= MaxProjectsNarrow /\ AddProject(d, d.owner)
    \/ \E b \in TaskBatches, id \in 1..MaxProjectsNarrow : AddTasks(b, id)
    \/ \E b \in TaskBatches, id \in 1..MaxProjectsNarrow, k \in 1..MaxTasks :
            AddTasks_insertFails(b, id, k)
    \/ \E t \in TaskIds : Delete({t}, A)

SpecAddTasks == Init /\ [][NextAddTasks]_vars

----------------------------------------------------------------------------
(* SetProcessPoints calls, statement by statement, in a project with        *)
(* needsAssignment, while tasks are assigned and unassigned *)

RaceProjectDrafts == { Draft(GoodHead, A, <<A, B>>, <<1>>, TRUE) }

NextRace ==
    \/ \E d \in RaceProjectDrafts :
            nextProjectId <= MaxProjectsNarrow /\ AddProject(d, d.owner)
    \/ \E id \in 1..MaxProjectsNarrow : AddTasks(<<PlainTask>>, id)
    \/ \E t \in TaskIds, u \in {A, B} : AssignUser(t, u)
    \/ \E t \in TaskIds, u \in {A, B} : UnassignUser(t, u)
    \/ \E r \in ReqIds, t \in TaskIds, n \in 0..MaxPoints, u \in {A, B} :
            SetProcessPoints_AssignmentInTaskNeeded(r, t, n, u)
    \/ \E r \in ReqIds : SetProcessPoints_verify(r)
    \/ \E r \in ReqIds : SetProcessPoints_getTask(r)
    \/ \E r \in ReqIds : SetProcessPoints_setProcessPoints(r)

SpecRace == Init /\ [][NextRace]_vars

----------------------------------------------------------------------------
(* Tokens: handed out, presented, and presented after a change *)

NextAuth ==
    \/ \E u \in AuthUsers : OauthCallback(u)
    \/ TimePasses
    \/ \E h \in Headers : VerifyRequest(h)

SpecAuth == Init /\ [][NextAuth]_vars

----------------------------------------------------------------------------
(* GetId calls from concurrent goroutines *)

NextIds ==
    \/ \E g \in Goroutines : GetId_read(g)
    \/ \E g \in Goroutines : GetId_add(g)
    \/ \E g \in Goroutines : GetId_store(g)

SpecIds == Init /\ [][NextIds]_vars

----------------------------------------------------------------------------
(* Drafts POSTed to /projects, well-formed and not *)

\* drafts that differ in every field AddProject looks at
ValidationDrafts ==
    MemberDrafts \cup ProjectDrafts
    \cup { Draft([GoodHead EXCEPT !.descriptionLen = n], A, <<A>>, <<1>>, FALSE) :
             n \in {0, maxDescriptionLength - 1} }

NextValidation ==
    \/ \E d \in ValidationDrafts, u \in Users : AddProject(d, u)
    \/ \E id \in ProjectIds, u \in Users : DeleteProject(id, u)

SpecValidation == Init /\ [][NextValidation]_vars

----------------------------------------------------------------------------
(* The members of a project and the users assigned to its tasks: every     *)
(* call one unit *)

NextTeam ==
    \/ \E d \in TaskProjectDrafts :
            nextProjectId <= MaxProjectsNarrow /\ AddProject(d, d.owner)
    \/ \E id \in 1..MaxProjectsNarrow : AddTasks(<<PlainTask>>, id)
    \/ \E u \in Users, id \in ProjectIds, o \in Users : AddUser(u, id, o)
    \/ \E id \in ProjectIds, u \in Users, v \in Users : RemoveUser(id, u, v)
    \/ \E id \in ProjectIds, u \in Users : LeaveProject(id, u)
    \/ \E t \in TaskIds, u \in Users : AssignUser(t, u)
    \/ \E t \in TaskIds, u \in Users : UnassignUser(t, u)
    \/ \E t \in TaskIds, n \in 0..MaxPoints, u \in Users : SetProcessPoints(t, n, u)

SpecTeam == Init /\ [][NextTeam]_vars

----------------------------------------------------------------------------
(* Properties *)

\* the task ids a project lists
TaskIdsOf(P, id) == Range(P[id].taskIds)

\* C1: after every successful mutation, the owner of every existing project
\* is one of its users (no RemoveUser or LeaveProject removes the owner).
C1_OwnerInUsers ==
    \A id \in DOMAIN projects : projects[id].owner \in projects[id].users

\* C2: an AssignUser that writes after another call has assigned the task
\* (the second committer) fails with Conflict and leaves the assigned user
\* of the first committer in place.
C2_SecondCommitterConflicts ==
    [][\A r \in ReqIds :
          ( /\ last'.op = "AssignUser"
            /\ AssignUser_assignUser(r)
            /\ reqs[r].taskId \in DOMAIN tasks
            /\ tasks[reqs[r].taskId].assignedUser \in Users )
          => (last'.err = "Conflict" /\ tasks' = tasks)]_vars

\* C3: AssignUser(t, v) on a task assigned to a user u fails with Conflict
\* and leaves the task as it is; it succeeds only on a task no user is
\* assigned to, and then the task is assigned to v.
C3_AssignOnlyUnassigned ==
    [][\A t \in TaskIds, v \in Users :
          (last'.op = "AssignUser" /\ AssignUser(t, v) /\ t \in DOMAIN tasks)
          => /\ tasks[t].assignedUser \in Users
                  => (last'.err = "Conflict" /\ tasks' = tasks)
             /\ last'.err = "nil"
                  => (tasks[t].assignedUser \notin Users /\ tasks'[t].assignedUser = v)
             /\ last'.err \in {"nil", "Conflict"}]_vars

\* C3, its case: an AssignUser was refused on a task that a user holds
C3_Witness ==
    /\ last = [op |-> "AssignUser", err |-> "Conflict"]
    /\ \E t \in DOMAIN tasks : tasks[t].assignedUser \in Users

\* C4: no step changes the assigned user of a task from one user directly
\* to another user.
C4_NoDirectReassignment ==
    [][\A t \in DOMAIN tasks \cap DOMAIN tasks' :
          (tasks[t].assignedUser \in Users /\ tasks'[t].assignedUser \in Users)
          => tasks'[t].assignedUser = tasks[t].assignedUser]_vars

\* C5: every task id is listed by at most one project.
C5_TaskInOneProject ==
    \A p \in DOMAIN projects, q \in DOMAIN projects :
        p # q => TaskIdsOf(projects, p) \cap TaskIdsOf(projects, q) = {}

\* a draft that meets the preconditions of section 4.2 on its own fields
WellFormedDraft(d) ==
    /\ d.id = "" /\ d.owner # Empty /\ d.owner \in Range(d.users)
    /\ d.name # "" /\ d.taskIds # << >> /\ d.descriptionLen <= maxDescriptionLength

\* C6: AddProject with a draft that lists a task id of an existing project
\* fails with Conflict and persists nothing.
C6_BoundTaskConflicts ==
    [][\A d \in ProjectDrafts, u \in Users :
          ( /\ last'.op = "AddProject"
            /\ WellFormedDraft(d)
            /\ AddProject(d, u)
            /\ \E p \in DOMAIN projects : TaskIdsOf(projects, p) \cap Range(d.taskIds) # {} )
          => (last'.err = "Conflict" /\ projects' = projects /\ tasks' = tasks)]_vars

\* C7: after every step, every task has 0 <= processPoints <=
\* maxProcessPoints and maxProcessPoints >= 1, and no step changes the
\* maxProcessPoints of a task.
C7_PointsInRange ==
    [][ /\ \A t \in DOMAIN tasks' :
              /\ 0 <= tasks'[t].processPoints
              /\ tasks'[t].processPoints <= tasks'[t].maxProcessPoints
              /\ tasks'[t].maxProcessPoints >= 1
        /\ \A t \in DOMAIN tasks \cap DOMAIN tasks' :
              tasks'[t].maxProcessPoints = tasks[t].maxProcessPoints ]_vars

\* C7, its case: a SetProcessPoints call has raised the points of a task,
\* while another call on a task is still in flight
C7_Witness ==
    /\ last = [op |-> "SetProcessPoints", err |-> "nil"]
    /\ \E t \in DOMAIN tasks : tasks[t].processPoints = tasks[t].maxProcessPoints
    /\ \E r \in ReqIds : reqs[r].op = "SetProcessPoints"

\* C8: in a project with needsAssignment, SetProcessPoints(t, n, u) succeeds
\* only for the assigned user u; a member who is not assigned gets
\* NotAuthorized and the task stays as it is; the assigned user succeeds
\* with a value in range.
C8_OnlyAssigneeSetsPoints ==
    [][\A t \in TaskIds, n \in Points, u \in Users :
          ( /\ last'.op = "SetProcessPoints"
            /\ t \in DOMAIN tasks
            /\ tasks[t].projectId \in DOMAIN projects
            /\ projects[tasks[t].projectId].needsAssignment
            /\ SetProcessPoints(t, n, u) )
          => /\ (last'.err = "nil" \/ tasks' # tasks) => tasks[t].assignedUser = u
             /\ ( /\ u \in projects[tasks[t].projectId].users
                  /\ tasks[t].assignedUser # u )
                  => (last'.err = "NotAuthorized" /\ tasks' = tasks)
             /\ ( /\ tasks[t].assignedUser = u
                  /\ 0 <= n /\ n <= tasks[t].maxProcessPoints )
                  => (last'.err = "nil" /\ tasks'[t].processPoints = n)]_vars

\* C8, its case: in a project with needsAssignment a member who is not the
\* assigned user was refused
C8_Witness ==
    /\ last = [op |-> "SetProcessPoints", err |-> "NotAuthorized"]
    /\ \E t \in DOMAIN tasks :
          /\ tasks[t].projectId \in DOMAIN projects
          /\ projects[tasks[t].projectId].needsAssignment
          /\ tasks[t].assignedUser \in projects[tasks[t].projectId].users
          /\ projects[tasks[t].projectId].users \ {tasks[t].assignedUser} # {}

\* the part of C9 on the service alone
C9_ServiceNonOwnerCannotDelete ==
    [][\A id \in ProjectIds, u \in Users :
          ( /\ last'.op = "DeleteProject"
            /\ id \in DOMAIN projects
            /\ projects[id].owner # u
            /\ DeleteProject(id, u) )
          => (last'.err = "NotAuthorized" /\ projects' = projects /\ tasks' = tasks)]_vars

\* C9: a delete of a project asked for by a user who is not its owner, by
\* DeleteProject or by DELETE /projects/{id}, fails with NotAuthorized and
\* leaves projects and tasks as they are.
C9_NonOwnerCannotDelete ==
    [][\A id \in ProjectIds, u \in Users :
          ( /\ last'.op \in {"DeleteProject", "deleteProjects"}
            /\ id \in DOMAIN projects
            /\ projects[id].owner # u
            /\ DeleteProject(id, u) \/ deleteProjects(id, u) )
          => (last'.err = "NotAuthorized" /\ projects' = projects /\ tasks' = tasks)]_vars

\* C10: after a successful DeleteProject(id, owner) the project is gone and
\* so is every task that belonged to it.
C10_NoOrphanTasks ==
    [][\A id \in ProjectIds, u \in Users :
          (last' = [op |-> "DeleteProject", err |-> "nil"] /\ DeleteProject(id, u))
          => /\ id \notin DOMAIN projects'
             /\ \A t \in getTasks(tasks, id) \cup TaskIdsOf(projects, id) :
                    t \notin DOMAIN tasks']_vars

\* C11: DeleteProject is all or nothing: a call that removes the project
\* leaves none of the project's tasks behind, and a call that reports a
\* failure has removed neither the project nor a task.
C11_DeleteProjectAtomic ==
    [][\A id \in ProjectIds, u \in Users :
          (last'.op = "DeleteProject" /\ DeleteProject(id, u))
          => /\ (id \in DOMAIN projects /\ id \notin DOMAIN projects')
                  => getTasks(tasks', id) = {}
             /\ last'.err # "nil" => (projects' = projects /\ tasks' = tasks)]_vars

\* C12: UnassignUser(t, r) clears the assigned user of the task only when r
\* is the user assigned to it; for every other requester (another member,
\* the owner, anyone when the task is unassigned) it fails with
\* NotAuthorized and the task stays as it is.
C12_OnlyAssigneeUnassigns ==
    [][\A t \in TaskIds, r \in Users :
          (last'.op = "UnassignUser" /\ t \in DOMAIN tasks /\ UnassignUser(t, r))
          => /\ tasks[t].assignedUser = r
                  => /\ last'.err = "nil"
                     /\ tasks' = [tasks EXCEPT ![t].assignedUser = Empty]
             /\ tasks[t].assignedUser # r
                  => (last'.err = "NotAuthorized" /\ tasks' = tasks)]_vars

\* C12, its case: a requester who is a user but not the assigned one was
\* refused on a task that a user holds
C12_Witness ==
    /\ last = [op |-> "UnassignUser", err |-> "NotAuthorized"]
    /\ \E t \in DOMAIN tasks : tasks[t].assignedUser \in Users

\* C13: every task AddTasks creates is unassigned right after the call,
\* whatever assigned user its draft carried.
C13_CreatedUnassigned ==
    [][\A t \in DOMAIN tasks' \ DOMAIN tasks :
          last'.op = "AddTasks" => tasks'[t].assignedUser \notin Users]_vars

\* C14: RemoveUser(id, requestingUser, userToRemove) removes a user only if
\* the requester is the user to remove or the owner, and the user to remove
\* is not the owner; in every other case it fails with NotAuthorized and the
\* project is unchanged.
C14_RemoveUserAuthorized ==
    [][\A id \in ProjectIds, r \in Users, v \in Users :
          (last'.op = "RemoveUser" /\ id \in DOMAIN projects /\ RemoveUser(id, r, v))
          => LET allowed == /\ r = v \/ r = projects[id].owner
                            /\ v # projects[id].owner
             IN /\ projects'[id].users # projects[id].users => allowed
                /\ ~allowed => (last'.err = "NotAuthorized" /\ projects' = projects)]_vars

\* C15: once a RemoveUser has succeeded, a RemoveUser that names a user who
\* is not the owner and not (any more) a member of the project fails with
\* NotAuthorized or NotFound: in every state that a successful RemoveUser
\* has left, that is the error such a call returns.  (The call leaves the
\* project as it is whatever it returns.)
C15_SecondRemoveUserFails ==
    \A id \in DOMAIN projects, r \in Users, v \in Users :
        ( /\ last = [op |-> "RemoveUser", err |-> "nil"]
          /\ v # projects[id].owner
          /\ v \notin projects[id].users )
        => RemoveUserErr(projects, id, r, v) \in {"NotAuthorized", "NotFound"}

\* C16: LeaveProject by the owner fails and leaves the project unchanged;
\* by a member who is not the owner it removes that user from users and
\* changes nothing else.
C16_LeaveProject ==
    [][\A id \in ProjectIds, u \in Users :
          (last'.op = "LeaveProject" /\ id \in DOMAIN projects /\ LeaveProject(id, u))
          => /\ u = projects[id].owner
                  => (last'.err # "nil" /\ projects' = projects)
             /\ (u # projects[id].owner /\ u \in projects[id].users)
                  => /\ last'.err = "nil"
                     /\ projects' = [projects EXCEPT ![id].users = @ \ {u}]
                     /\ projects'[id].users # projects[id].users
             /\ tasks' = tasks]_vars

\* C16, its case: a member has left the project of owner B, whose only
\* user is now B
C16_Witness ==
    /\ last = [op |-> "LeaveProject", err |-> "nil"]
    /\ \E id \in DOMAIN projects :
          projects[id].owner = B /\ projects[id].users = {B}

\* C17: LeaveProject(id, u) has the outcome and the resulting projects of
\* RemoveUser(id, u, u), for the owner, the other members and the users
\* who are not members.
C17_LeaveIsSelfRemoval ==
    [][\A id \in ProjectIds, u \in Users :
          (last'.op = "LeaveProject" /\ LeaveProject(id, u))
          => /\ last'.err = RemoveUserErr(projects, id, u, u)
             /\ projects' = IF RemoveUserErr(projects, id, u, u) = "nil"
                            THEN projectStore_removeUser(projects, id, u)
                            ELSE projects]_vars

\* C18: AddUser(newUser, id, requestingUser) adds newUser to users iff the
\* requester is the owner and newUser is not a member yet; a requester who
\* is not the owner gets NotAuthorized, a newUser who is a member already
\* gets Conflict, and a call that fails leaves the project unchanged.
C18_AddUser ==
    [][\A u \in Users, id \in ProjectIds, o \in Users :
          (last'.op = "AddUser" /\ id \in DOMAIN projects /\ AddUser(u, id, o))
          => /\ o # projects[id].owner => last'.err = "NotAuthorized"
             /\ (o = projects[id].owner /\ u \in projects[id].users)
                  => last'.err = "Conflict"
             /\ (o = projects[id].owner /\ u \notin projects[id].users)
                  => /\ last'.err = "nil"
                     /\ projects' = [projects EXCEPT ![id].users = @ \cup {u}]
                     /\ Cardinality(projects'[id].users)
                            = Cardinality(projects[id].users) + 1
             /\ last'.err # "nil" => projects' = projects]_vars

\* C18, its case: the owner asked to add a user who is a member already
C18_Witness ==
    /\ last = [op |-> "AddUser", err |-> "Conflict"]
    /\ \E id \in DOMAIN projects : Cardinality(projects[id].users) >= 2

\* C19: GetProject(id, u) and GetTasks(id, u) asked for by a user u who is
\* not a member of the project fail with NotAuthorized, and GetProjects(u)
\* hands back only projects u is a member of.
C19_ReadsOnlyForMembers ==
    [][ /\ \A id \in ProjectIds, u \in Users :
              ( /\ last'.op \in {"GetProject", "GetTasks"}
                /\ id \in DOMAIN projects
                /\ u \notin projects[id].users
                /\ GetProject(id, u) \/ GetTasks(id, u) )
              => last'.err = "NotAuthorized"
        /\ \A u \in Users :
              (last'.op = "GetProjects" /\ GetProjects(u))
              => \A p \in GetProjectsResult(projects, u) : u \in p.users ]_vars

\* sum of f over the tasks in S
RECURSIVE SumOver(_, _, _)
SumOver(T, S, field) ==
    IF S = {} THEN 0
    ELSE LET t == CHOOSE x \in S : TRUE
         IN (IF field = "max" THEN T[t].maxProcessPoints ELSE T[t].processPoints)
            + SumOver(T, S \ {t}, field)

\* C20: the project GetProject returns carries totalProcessPoints, the sum
\* of maxProcessPoints, and doneProcessPoints, the sum of processPoints,
\* over the tasks the project has at the time of the read.
C20_ProgressSums ==
    [][\A id \in ProjectIds, u \in Users :
          (last' = [op |-> "GetProject", err |-> "nil"] /\ GetProject(id, u))
          => LET res == GetProjectResult(projects, id) IN
             /\ "totalProcessPoints" \in DOMAIN res
             /\ "doneProcessPoints" \in DOMAIN res
             /\ res.totalProcessPoints = SumOver(tasks, getTasks(tasks, id), "max")
             /\ res.doneProcessPoints = SumOver(tasks, getTasks(tasks, id), "done")]_vars

\* a draft that meets the preconditions of section 4.3
ValidTaskDraft(d) ==
    /\ 0 <= d.processPoints /\ 1 <= d.maxProcessPoints
    /\ d.processPoints <= d.maxProcessPoints
    /\ d.geometry = "FeaturePolygon"

\* C21: AddTasks is all or nothing: a batch with a draft that is not valid
\* fails with Validation and no task of it is persisted, a batch one of
\* whose INSERTs fails persists no task, and every other batch persists a
\* task for each of its drafts.
C21_AddTasksAllOrNothing ==
    [][\A b \in TaskBatches, id \in 1..MaxProjectsNarrow :
          ( /\ last'.op = "AddTasks"
            /\ AddTasks(b, id) \/ \E k \in 1..MaxTasks : AddTasks_insertFails(b, id, k) )
          => /\ (\E i \in DOMAIN b : ~ValidTaskDraft(b[i]))
                  => (last'.err = "Validation" /\ tasks' = tasks)
             /\ last'.err # "nil" => tasks' = tasks
             /\ last'.err = "nil"
                  => /\ DOMAIN tasks' = DOMAIN tasks \cup (nextTaskId..(nextTaskId + Len(b) - 1))
                     /\ \A t \in DOMAIN tasks : tasks'[t] = tasks[t]
                     /\ \A i \in DOMAIN b :
                           /\ tasks'[nextTaskId + i - 1].processPoints = b[i].processPoints
                           /\ tasks'[nextTaskId + i - 1].maxProcessPoints = b[i].maxProcessPoints
                           /\ tasks'[nextTaskId + i - 1].geometry = b[i].geometry
                           /\ tasks'[nextTaskId + i - 1].projectId = id]_vars

\* C21, its case: the second INSERT of a batch failed after the first had
\* run, and no task is in the table
C21_Witness ==
    /\ last = [op |-> "AddTasks", err |-> "Internal"]
    /\ nextTaskId > 1
    /\ tasks = << >>

\* C22: Delete(taskIds, u) deletes tasks only if u is a member of the owning
\* project of every listed task; if that fails for one id, no task is
\* deleted and the call fails; if it holds, exactly the listed tasks are
\* deleted.
C22_DeleteForMembers ==
    [][\A ts \in SUBSET TaskIds, u \in Users :
          (last'.op = "Delete" /\ Delete(ts, u))
          => LET member == \A t \in ts :
                               /\ t \in DOMAIN tasks
                               /\ tasks[t].projectId \in DOMAIN projects
                               /\ u \in projects[tasks[t].projectId].users
             IN /\ tasks' # tasks => member
                /\ ~member => (last'.err # "nil" /\ tasks' = tasks)
                /\ member => /\ last'.err = "nil"
                             /\ tasks' = [t \in DOMAIN tasks \ ts |-> tasks[t]]
                /\ projects' = projects]_vars

\* C22, its case: a Delete was refused while the table holds a task of a
\* project the user is a member of and a task of a project the user is not
\* a member of
C22_Witness ==
    /\ last = [op |-> "Delete", err |-> "NotAuthorized"]
    /\ \E u \in Users, t1 \in DOMAIN tasks, t2 \in DOMAIN tasks :
          /\ tasks[t1].projectId \in DOMAIN projects
          /\ tasks[t2].projectId \in DOMAIN projects
          /\ u \in projects[tasks[t1].projectId].users
          /\ u \notin projects[tasks[t2].projectId].users

\* C23: in a project with needsAssignment, the UPDATE of a
\* SetProcessPoints(t, n, u) call is applied only if u is the user assigned
\* to t at the moment of the write.
C23_WriteOnlyWhileAssigned ==
    [][\A r \in ReqIds :
          ( /\ reqs[r].pc = "setProcessPoints"
            /\ reqs[r].needsAssignment
            /\ reqs[r].taskId \in DOMAIN tasks
            /\ SetProcessPoints_setProcessPoints(r) )
          => tasks[reqs[r].taskId].assignedUser = reqs[r].user]_vars

\* C24: VerifyRequest accepts a header iff it carries a token as it was
\* handed out (user, validUntil and verifier unchanged) whose validUntil is
\* not before the current time; a token handed out at time t has
\* validUntil = t + 24h.
C24_OnlyIssuedTokensAccepted ==
    [][ /\ \A h \in Headers :
              (last'.op = "VerifyRequest" /\ VerifyRequest(h))
              => ( last'.err = "nil"
                   <=> /\ h.encoding = "ok"
                       /\ Token(h.validUntil, h.user, h.secret) \in issued
                       /\ h.validUntil >= now )
        /\ \A u \in AuthUsers :
              (last'.op = "OauthCallback" /\ OauthCallback(u))
              => \A i \in issued' \ issued : i.validUntil = now + tokenValidDuration ]_vars

\* C29: the ids GetId has returned are pairwise distinct, whatever the
\* interleaving of the calls.
C29_IdsDistinct ==
    \A i \in DOMAIN returnedIds, j \in DOMAIN returnedIds :
        i # j => returnedIds[i] # returnedIds[j]

\* C25: AddProject persists the project iff the draft has no id, an owner
\* that is one of its users, a name, at least one task id and a description
\* of at most 10,000 (10,000 accepted, 10,001 refused); a draft that misses
\* one of these fails with Validation and the store is unchanged.
C25_AddProjectValidation ==
    [][\A d \in ValidationDrafts, u \in Users :
          (last'.op = "AddProject" /\ AddProject(d, u))
          => /\ WellFormedDraft(d)
                  => /\ last'.err = "nil"
                     /\ DOMAIN projects' = DOMAIN projects \cup {nextProjectId}
                     /\ nextProjectId \notin DOMAIN projects
                     /\ \A id \in DOMAIN projects : projects'[id] = projects[id]
                     /\ projects'[nextProjectId].name = d.name
                     /\ projects'[nextProjectId].owner = d.owner
                     /\ projects'[nextProjectId].users = Range(d.users)
                     /\ projects'[nextProjectId].taskIds = d.taskIds
                     /\ projects'[nextProjectId].descriptionLen = d.descriptionLen
             /\ ~WellFormedDraft(d)
                  => (last'.err = "Validation" /\ projects' = projects /\ tasks' = tasks)
             /\ (d.descriptionLen = 10000 /\ WellFormedDraft([d EXCEPT !.descriptionLen = 0]))
                  => last'.err = "nil"
             /\ d.descriptionLen = 10001 => last'.err = "Validation"]_vars

\* C25, its case: a project with a description of 10,000 is in the store
\* and a draft has been refused
C25_Witness ==
    /\ last = [op |-> "AddProject", err |-> "Validation"]
    /\ \E id \in DOMAIN projects : projects[id].descriptionLen = 10000

\* every task of a project that is assigned to a user is assigned to a
\* member of the project
AssigneesAreMembers(P, T) ==
    \A t \in DOMAIN T :
        (T[t].assignedUser \in Users /\ T[t].projectId \in DOMAIN P)
        => T[t].assignedUser \in P[T[t].projectId].users

\* C26: AddUser, RemoveUser, LeaveProject, AssignUser and UnassignUser keep
\* every assigned user a member of the project of the task: no AssignUser
\* assigns a user who is not a member, and no removal leaves the removed
\* user assigned.
C26_AssigneeIsMember ==
    [][ ( /\ last'.op \in {"AddUser", "RemoveUser", "LeaveProject",
                           "AssignUser", "UnassignUser"}
          /\ AssigneesAreMembers(projects, tasks) )
        => AssigneesAreMembers(projects', tasks') ]_vars

\* C27: a SetProcessPoints(t, n, u) that succeeds is the call of a user u
\* who is a member of the project of the task at the time of the call,
\* with and without needsAssignment.
C27_PointsOnlyByMembers ==
    [][\A t \in TaskIds, n \in 0..MaxPoints, u \in Users :
          ( /\ last' = [op |-> "SetProcessPoints", err |-> "nil"]
            /\ t \in DOMAIN tasks
            /\ SetProcessPoints(t, n, u) )
          => /\ tasks[t].projectId \in DOMAIN projects
             /\ u \in projects[tasks[t].projectId].users]_vars

\* every task id a project lists is the id of a task in the table
NoDanglingTaskIds(P, T) ==
    \A id \in DOMAIN P : TaskIdsOf(P, id) \subseteq DOMAIN T

\* C28: a task Delete leaves no project with a task id in its taskIds that
\* refers to no task: where every listed id referred to a task before the
\* call, every listed id refers to a task after it.
C28_NoDanglingTaskIds ==
    [][ (last'.op = "Delete" /\ NoDanglingTaskIds(projects, tasks))
        => NoDanglingTaskIds(projects', tasks') ]_vars

====
